---- MODULE Spec2Model ----
(***************************************************************************)
(* Model of the two-pass ASCII-art video particle pipeline (WebGLApp).     *)
(* The annotated script (src/unnamed/part_001) is the program modelled;    *)
(* src/study-1/script.js is the same program without the tile-size         *)
(* animator.  JavaScript numbers are modelled as exact rationals <<n, d>>. *)
(***************************************************************************)
EXTENDS Integers, Sequences, FiniteSets, TLC

(***************************************************************************)
(* Bounds of the model.                                                    *)
(***************************************************************************)
MaxTicks == 10
MaxPixels == 6
MaxStride == 3
TicksPerDuration == 4
VideoWidth == 5
VideoHeight == 2

(***************************************************************************)
(* JavaScript number arithmetic, as exact rationals in lowest terms.       *)
(***************************************************************************)
Abs(n) == IF n < 0 THEN 0 - n ELSE n

RECURSIVE GCD(_, _)
GCD(a, b) == IF b = 0 THEN a ELSE GCD(b, a % b)

Rat(n, d) ==
  LET g == GCD(Abs(n), Abs(d))
      s == IF d < 0 THEN 0 - 1 ELSE 1
  IN  <<(s * n) \div g, (s * d) \div g>>

RInt(n) == <<n, 1>>
\* the sum over the least common denominator, which keeps the products small
RAdd(a, b) ==
  LET g == GCD(a[2], b[2])
  IN  Rat(a[1] * (b[2] \div g) + b[1] * (a[2] \div g), (a[2] \div g) * b[2])
RSub(a, b) == RAdd(a, <<0 - b[1], b[2]>>)
RMul(a, b) == Rat(a[1] * b[1], a[2] * b[2])
RDiv(a, b) == Rat(a[1] * b[2], a[2] * b[1])
RNeg(a) == <<0 - a[1], a[2]>>
RLess(a, b) == a[1] * b[2] < b[1] * a[2]
RLeq(a, b) == a[1] * b[2] <= b[1] * a[2]

RECURSIVE RPow(_, _)
RPow(a, k) == IF k = 0 THEN RInt(1) ELSE RMul(a, RPow(a, k - 1))

(***************************************************************************)
(* Particle Extractor: updateParticlesFromVideo.                           *)
(* pixels is imageData.data, a function from byte index 0..w*h*4-1 to a    *)
(* byte.  A read outside the array yields undefined in JavaScript and      *)
(* `undefined > n` is false.                                               *)
(***************************************************************************)
\* variant: the comparisons are >= instead of >
ReadGe(pixels, i, n) == i \in DOMAIN pixels /\ pixels[i] >= n

ReadGt(pixels, i, n) == i \in DOMAIN pixels /\ pixels[i] > n

\* variant: a new particle is put in front of the arrays
VisitPixelUnshift(pixels, width, height, threshold, x, y, acc) ==
  LET i == (y * width + x) * 4
      isWhiteBackground ==
        ReadGt(pixels, i, 250) /\ ReadGt(pixels, i + 1, 250) /\ ReadGt(pixels, i + 2, 250)
      seen == [acc EXCEPT !.reads = Append(@, <<x, y, i>>)]
  IN  IF ReadGt(pixels, i + 3, threshold) /\ ~isWhiteBackground
      THEN LET normalizedX == RSub(RMul(RDiv(RInt(x), RInt(width)), RInt(2)), RInt(1))
               normalizedY == RNeg(RSub(RMul(RDiv(RInt(y), RInt(height)), RInt(2)), RInt(1)))
           IN  [seen EXCEPT
                 !.position = <<normalizedX, normalizedY, RInt(0)>> \o @,
                 !.color = <<Rat(pixels[i], 255), Rat(pixels[i + 1], 255),
                             Rat(pixels[i + 2], 255), Rat(pixels[i + 3], 255)>> \o @]
      ELSE seen

\* variant: the vertical coordinate is not inverted
VisitPixelUnflipped(pixels, width, height, threshold, x, y, acc) ==
  LET i == (y * width + x) * 4
      isWhiteBackground ==
        ReadGt(pixels, i, 250) /\ ReadGt(pixels, i + 1, 250) /\ ReadGt(pixels, i + 2, 250)
      seen == [acc EXCEPT !.reads = Append(@, <<x, y, i>>)]
  IN  IF ReadGt(pixels, i + 3, threshold) /\ ~isWhiteBackground
      THEN LET normalizedX == RSub(RMul(RDiv(RInt(x), RInt(width)), RInt(2)), RInt(1))
               normalizedY == RSub(RMul(RDiv(RInt(y), RInt(height)), RInt(2)), RInt(1))
           IN  [seen EXCEPT
                 !.position = @ \o <<normalizedX, normalizedY, RInt(0)>>,
                 !.color = @ \o <<Rat(pixels[i], 255), Rat(pixels[i + 1], 255),
                                  Rat(pixels[i + 2], 255), Rat(pixels[i + 3], 255)>>]
      ELSE seen

\* the body of the inner loop for one visited (x, y)
VisitPixel(pixels, width, height, threshold, x, y, acc) ==
  LET i == (y * width + x) * 4
      isWhiteBackground ==
        ReadGt(pixels, i, 250) /\ ReadGt(pixels, i + 1, 250) /\ ReadGt(pixels, i + 2, 250)
      seen == [acc EXCEPT !.reads = Append(@, <<x, y, i>>)]
  IN  IF ReadGt(pixels, i + 3, threshold) /\ ~isWhiteBackground
      THEN LET normalizedX == RSub(RMul(RDiv(RInt(x), RInt(width)), RInt(2)), RInt(1))
               normalizedY == RNeg(RSub(RMul(RDiv(RInt(y), RInt(height)), RInt(2)), RInt(1)))
           IN  [seen EXCEPT
                 !.position = @ \o <<normalizedX, normalizedY, RInt(0)>>,
                 !.color = @ \o <<Rat(pixels[i], 255), Rat(pixels[i + 1], 255),
                                  Rat(pixels[i + 2], 255), Rat(pixels[i + 3], 255)>>]
      ELSE seen

\* variant: the column loop runs while x <= width
RECURSIVE ScanRowInclusive(_, _, _, _, _, _, _, _)
ScanRowInclusive(pixels, width, height, sampling, threshold, x, y, acc) ==
  IF x <= width
  THEN ScanRowInclusive(pixels, width, height, sampling, threshold, x + sampling, y,
                        VisitPixel(pixels, width, height, threshold, x, y, acc))
  ELSE acc

\* for (let x = 0; x < width; x += SAMPLING)
RECURSIVE ScanRow(_, _, _, _, _, _, _, _)
ScanRow(pixels, width, height, sampling, threshold, x, y, acc) ==
  IF x < width
  THEN ScanRow(pixels, width, height, sampling, threshold, x + sampling, y,
               VisitPixel(pixels, width, height, threshold, x, y, acc))
  ELSE acc

\* variant: the row loop runs while y <= height
RECURSIVE ScanRowsInclusive(_, _, _, _, _, _, _)
ScanRowsInclusive(pixels, width, height, sampling, threshold, y, acc) ==
  IF y <= height
  THEN ScanRowsInclusive(pixels, width, height, sampling, threshold, y + sampling,
                         ScanRow(pixels, width, height, sampling, threshold, 0, y, acc))
  ELSE acc

\* for (let y = 0; y < height; y += SAMPLING)
RECURSIVE ScanRows(_, _, _, _, _, _, _)
ScanRows(pixels, width, height, sampling, threshold, y, acc) ==
  IF y < height
  THEN ScanRows(pixels, width, height, sampling, threshold, y + sampling,
                ScanRow(pixels, width, height, sampling, threshold, 0, y, acc))
  ELSE acc

\* the arrays are reset, the frame is scanned, the vertex buffers are rebuilt
updateParticlesFromVideo(pixels, width, height, sampling, threshold) ==
  ScanRows(pixels, width, height, sampling, threshold, 0,
           [position |-> <<>>, color |-> <<>>, reads |-> <<>>])

(***************************************************************************)
(* Program constants.                                                      *)
(***************************************************************************)
AnimStartValue == 100
AnimEndValue == 10
AnimDuration == 2000
AnimDelay == 2000
DesktopSampling == 4
MobileSampling == 8
AlphaThreshold == 10
HaveMetadata == 1
HaveCurrentData == 2

\* Date.now() advances in steps of TimeStep milliseconds
TimeStep == AnimDuration \div TicksPerDuration

(***************************************************************************)
(* State of the WebGLApp instance and of its environment.                  *)
(***************************************************************************)
VARIABLES
  now,                \* Date.now(), milliseconds since the page was opened
  boot,               \* position of the DOMContentLoaded handler
  pc,                 \* position inside the running invocation of render()
  rafPending,         \* callbacks registered with requestAnimationFrame
  running,            \* this.running
  startTime,          \* this.startTime
  uMouse,             \* this.uMouse
  asciiParams,        \* this.asciiParams
  tileSizeAnimation,  \* this.tileSizeAnimation
  updateClock,        \* Date.now() at the last call of updateTileSizeAnimation
  video,              \* this.video: readyState and the current decoded frame
  videoCanvas,        \* this.videoCanvas: width and height
  SAMPLING,           \* this.SAMPLING
  ALPHA_THRESHOLD,    \* this.ALPHA_THRESHOLD
  position,           \* this.position
  color,              \* this.color
  particleVbo,        \* this.particleVbo: contents of the two vertex buffers
  reads,              \* <<x, y, i>> of every pixel read by the last extraction
  innerSize,          \* window.innerWidth, window.innerHeight
  twin,               \* a second instance armed at the same instant, on its own frame schedule
  pointer,            \* the last pointermove event delivered to the page
  shade,              \* one invocation of the particle vertex shader
  frag,               \* one invocation of the ASCII fragment shader
  canvas,             \* this.canvas: width and height
  framebuffer,        \* this.framebuffer: status reported at creation
  renderTexture,      \* this.renderTexture: width and height
  pass1Draw,          \* the last draw call issued into the off-screen target
  pass2Draw,          \* the last draw call issued to the display
  frameLog            \* steps issued so far by the current render() call

vars == <<now, boot, pc, rafPending, running, startTime, uMouse, asciiParams,
          tileSizeAnimation, updateClock, video, videoCanvas, SAMPLING,
          ALPHA_THRESHOLD, position, color, particleVbo, reads, innerSize, twin, pointer, shade, frag,
          canvas, framebuffer, renderTexture, pass1Draw, pass2Draw, frameLog>>

Null == "null"
NoDraw == [issued |-> FALSE]

(***************************************************************************)
(* Pixel frames.                                                           *)
(***************************************************************************)
Dark == <<251, 251, 250, 255>>
White == <<251, 251, 251, 255>>
Faint == <<0, 0, 0, 11>>
Palette == {Dark, White, Faint}

\* imageData.data of a frame given as one RGBA tuple per pixel
Flatten(f, n) == [i \in 0..(n * 4 - 1) |-> f[i \div 4][(i % 4) + 1]]

\* every width x height frame over the palette
Frames(width, height) ==
  {Flatten(f, width * height) : f \in [0..(width * height - 1) -> Palette]}

\* the frames the decoded video cycles through
VideoFrames ==
  {Flatten([k \in 0..(VideoWidth * VideoHeight - 1) |-> px], VideoWidth * VideoHeight) :
     px \in {Dark, White}}

\* HAVE_METADATA, HAVE_CURRENT_DATA, HAVE_ENOUGH_DATA
ReadyStates == {1, 2, 4}

NoVideo == [exists |-> FALSE, readyState |-> 0, pixels |-> <<>>]

(***************************************************************************)
(* Parameter Animator.                                                     *)
(***************************************************************************)
startTileSizeAnimation(anim, t) ==
  [anim EXCEPT !.isAnimating = TRUE, !.startTime = t]

\* variant: the animation restarts when it completes
updateTileSizeAnimationLoop(anim, params, t) ==
  IF ~anim.isAnimating
  THEN [anim |-> anim, params |-> params]
  ELSE LET elapsed == t - anim.startTime
           animationElapsed == elapsed - anim.delay
           progress == Rat(animationElapsed, anim.duration)
           eased == RSub(RInt(1), RPow(RSub(RInt(1), progress), 3))
       IN  IF elapsed < anim.delay
           THEN [anim |-> anim, params |-> params]
           ELSE IF animationElapsed >= anim.duration
           THEN [anim |-> [anim EXCEPT !.startTime = t],
                 params |-> [params EXCEPT !.tileSize = anim.endValue]]
           ELSE [anim |-> anim,
                 params |-> [params EXCEPT !.tileSize =
                    RAdd(anim.startValue, RMul(RSub(anim.endValue, anim.startValue), eased))]]

\* variant: ease-in (progress cubed) instead of ease-out
updateTileSizeAnimationEaseIn(anim, params, t) ==
  IF ~anim.isAnimating
  THEN [anim |-> anim, params |-> params]
  ELSE LET elapsed == t - anim.startTime
           animationElapsed == elapsed - anim.delay
           progress == Rat(animationElapsed, anim.duration)
           eased == RPow(progress, 3)
       IN  IF elapsed < anim.delay
           THEN [anim |-> anim, params |-> params]
           ELSE IF animationElapsed >= anim.duration
           THEN [anim |-> [anim EXCEPT !.isAnimating = FALSE],
                 params |-> [params EXCEPT !.tileSize = anim.endValue]]
           ELSE [anim |-> anim,
                 params |-> [params EXCEPT !.tileSize =
                    RAdd(anim.startValue, RMul(RSub(anim.endValue, anim.startValue), eased))]]

\* variant: no early return when the animation is over, the end value is
\* written again in every frame
updateTileSizeAnimationNoGuard(anim, params, t) ==
  LET elapsed == t - anim.startTime
      animationElapsed == elapsed - anim.delay
      progress == Rat(animationElapsed, anim.duration)
      eased == RSub(RInt(1), RPow(RSub(RInt(1), progress), 3))
  IN  IF elapsed < anim.delay
      THEN [anim |-> anim, params |-> params]
      ELSE IF animationElapsed >= anim.duration
      THEN [anim |-> [anim EXCEPT !.isAnimating = FALSE],
            params |-> [params EXCEPT !.tileSize = anim.endValue]]
      ELSE [anim |-> anim,
            params |-> [params EXCEPT !.tileSize =
               RAdd(anim.startValue, RMul(RSub(anim.endValue, anim.startValue), eased))]]

\* variant: the tile size moves by a fixed amount per frame once the delay
\* is over, instead of following the clock
updateTileSizeAnimationPerFrame(anim, params, t) ==
  IF ~anim.isAnimating
  THEN [anim |-> anim, params |-> params]
  ELSE LET elapsed == t - anim.startTime
           stepped == RSub(params.tileSize, RInt(30))
       IN  IF elapsed < anim.delay
           THEN [anim |-> anim, params |-> params]
           ELSE IF RLeq(stepped, anim.endValue)
           THEN [anim |-> [anim EXCEPT !.isAnimating = FALSE],
                 params |-> [params EXCEPT !.tileSize = anim.endValue]]
           ELSE [anim |-> anim, params |-> [params EXCEPT !.tileSize = stepped]]

\* variant: the completion branch is missing, the easing runs past progress 1
updateTileSizeAnimationOvershoot(anim, params, t) ==
  IF ~anim.isAnimating
  THEN [anim |-> anim, params |-> params]
  ELSE LET elapsed == t - anim.startTime
           delay == anim.delay
           duration == anim.duration
           animationElapsed == elapsed - delay
           progress == Rat(animationElapsed, duration)
           eased == RSub(RInt(1), RPow(RSub(RInt(1), progress), 3))
       IN  IF elapsed < delay
           THEN [anim |-> anim, params |-> params]
           ELSE [anim |-> anim,
                 params |-> [params EXCEPT !.tileSize =
                    RAdd(anim.startValue, RMul(RSub(anim.endValue, anim.startValue), eased))]]

\* variant: the delay branch is missing, the easing starts at once
updateTileSizeAnimationNoDelay(anim, params, t) ==
  IF ~anim.isAnimating
  THEN [anim |-> anim, params |-> params]
  ELSE LET elapsed == t - anim.startTime
           delay == anim.delay
           duration == anim.duration
           animationElapsed == elapsed - delay
           progress == Rat(animationElapsed, duration)
           eased == RSub(RInt(1), RPow(RSub(RInt(1), progress), 3))
       IN  IF animationElapsed >= duration
           THEN [anim |-> [anim EXCEPT !.isAnimating = FALSE],
                 params |-> [params EXCEPT !.tileSize = anim.endValue]]
           ELSE [anim |-> anim,
                 params |-> [params EXCEPT !.tileSize =
                    RAdd(anim.startValue, RMul(RSub(anim.endValue, anim.startValue), eased))]]

updateTileSizeAnimation(anim, params, t) ==
  IF ~anim.isAnimating
  THEN [anim |-> anim, params |-> params]
  ELSE LET elapsed == t - anim.startTime
           delay == anim.delay
           duration == anim.duration
           animationElapsed == elapsed - delay
           progress == Rat(animationElapsed, duration)
           eased == RSub(RInt(1), RPow(RSub(RInt(1), progress), 3))
       IN  IF elapsed < delay
           THEN [anim |-> anim, params |-> params]
           ELSE IF animationElapsed >= duration
           THEN [anim |-> [anim EXCEPT !.isAnimating = FALSE],
                 params |-> [params EXCEPT !.tileSize = anim.endValue]]
           ELSE [anim |-> anim,
                 params |-> [params EXCEPT !.tileSize =
                    RAdd(anim.startValue, RMul(RSub(anim.endValue, anim.startValue), eased))]]

(***************************************************************************)
(* resize(): the canvas is fitted into the window at 16:9 and the          *)
(* off-screen texture follows it once the framebuffer exists.  A canvas    *)
(* dimension is an integer attribute: the fraction is dropped.             *)
(***************************************************************************)
FitCanvas(win) ==
  IF win[1] * 9 > win[2] * 16
  THEN <<(win[2] * 16) \div 9, win[2]>>
  ELSE <<win[1], (win[1] * 9) \div 16>>

NoCanvas == <<0, 0>>

\* variant: the off-screen texture keeps the size it was created with
resizeCanvasOnly(win, fb, tex) ==
  [canvas |-> FitCanvas(win), renderTexture |-> tex]

\* resize(): what it leaves in the canvas and in the off-screen texture,
\* given the window, this.framebuffer and the texture's size before
resize(win, fb, tex) ==
  [canvas |-> FitCanvas(win),
   renderTexture |-> IF fb # "null" THEN FitCanvas(win) ELSE tex]

(***************************************************************************)
(* Initial state: the instance as its constructor leaves it.               *)
(***************************************************************************)
WindowSizes == {<<32, 9>>}
InitialParams == [tileSize |-> RInt(AnimStartValue), tileStrength |-> RInt(2),
                  colorStep |-> Rat(1, 100), bioMode |-> FALSE]
InitialAnimation == [isAnimating |-> FALSE, startValue |-> RInt(AnimStartValue),
                     endValue |-> RInt(AnimEndValue), duration |-> AnimDuration,
                     delay |-> AnimDelay, startTime |-> 0]
DefaultCanvas == <<300, 150>>
Unset == 0 - 1
NoPointer == [delivered |-> FALSE]
NoShade == [done |-> FALSE]
NoFrag == [done |-> FALSE]
NoTwin == [tileSizeAnimation |-> InitialAnimation, asciiParams |-> InitialParams,
           updateClock |-> Unset]

Init ==
  /\ now = 0
  /\ boot = "init"
  /\ pc = "idle"
  /\ rafPending = 0
  /\ running = FALSE
  /\ startTime = 0
  /\ uMouse = <<RInt(0), RInt(0)>>
  /\ asciiParams = InitialParams
  /\ tileSizeAnimation = InitialAnimation
  /\ updateClock = Unset
  /\ video = NoVideo
  /\ videoCanvas = <<0, 0>>
  /\ SAMPLING = Unset
  /\ ALPHA_THRESHOLD = Unset
  /\ position = <<>>
  /\ color = <<>>
  /\ particleVbo = <<>>
  /\ reads = <<>>
  /\ innerSize \in WindowSizes
  /\ twin = NoTwin
  /\ pointer = NoPointer
  /\ shade = NoShade
  /\ frag = NoFrag
  /\ canvas = <<0, 0>>
  /\ framebuffer = Null
  /\ renderTexture = <<0, 0>>
  /\ pass1Draw = NoDraw
  /\ pass2Draw = NoDraw
  /\ frameLog = <<>>

(***************************************************************************)
(* The environment: the clock, the video decoder, the GUI pane.            *)
(***************************************************************************)
\* no handler of the page is executing: the event loop may dispatch an event
HandlerIdle == pc = "idle" /\ boot \in {"load", "done", "error"}

\* the clock moves between handlers: at this granularity a handler runs to
\* completion within one clock step
Tick ==
  /\ HandlerIdle
  /\ now < MaxTicks * TimeStep
  /\ now' = now + TimeStep
  /\ UNCHANGED <<boot, pc, rafPending, running, startTime, uMouse, asciiParams,
                 tileSizeAnimation, updateClock, video, videoCanvas, SAMPLING,
                 ALPHA_THRESHOLD, position, color, particleVbo, reads, innerSize, twin, pointer, shade, frag,
                 canvas, framebuffer, renderTexture, pass1Draw, pass2Draw, frameLog>>

\* the decoder moves to another frame or another ready-state
VideoEvent ==
  /\ HandlerIdle
  /\ video.exists
  /\ \E rs \in ReadyStates, px \in VideoFrames :
       /\ video' = [video EXCEPT !.readyState = rs, !.pixels = px]
       /\ video' # video
  /\ UNCHANGED <<now, boot, pc, rafPending, running, startTime, uMouse, asciiParams,
                 tileSizeAnimation, updateClock, videoCanvas, SAMPLING,
                 ALPHA_THRESHOLD, position, color, particleVbo, reads, innerSize, twin, pointer, shade, frag,
                 canvas, framebuffer, renderTexture, pass1Draw, pass2Draw, frameLog>>

\* values the Tile Size slider can be dragged to (min 10, max 100, step 1)
GuiTileSizes == {50, 100}

GuiSetTileSize ==
  /\ HandlerIdle
  /\ boot = "done"
  /\ \E v \in GuiTileSizes :
       /\ asciiParams.tileSize # RInt(v)
       /\ asciiParams' = [asciiParams EXCEPT !.tileSize = RInt(v)]
  /\ UNCHANGED <<now, boot, pc, rafPending, running, startTime, uMouse,
                 tileSizeAnimation, updateClock, video, videoCanvas, SAMPLING,
                 ALPHA_THRESHOLD, position, color, particleVbo, reads, innerSize, twin, pointer, shade, frag,
                 canvas, framebuffer, renderTexture, pass1Draw, pass2Draw, frameLog>>

(***************************************************************************)
(* The DOMContentLoaded handler: init, load, setup, first render.          *)
(***************************************************************************)
AppInit ==
  /\ boot = "init"
  /\ canvas' = DefaultCanvas
  /\ boot' = "load"
  /\ UNCHANGED <<now, pc, rafPending, running, startTime, uMouse, asciiParams,
                 tileSizeAnimation, updateClock, video, videoCanvas, SAMPLING,
                 ALPHA_THRESHOLD, position, color, particleVbo, reads, innerSize, twin, pointer, shade, frag,
                 framebuffer, renderTexture, pass1Draw, pass2Draw, frameLog>>

\* no canvas element, or no WebGL context: init throws
AppInitThrows ==
  /\ boot = "init"
  /\ boot' = "error"
  /\ \E found \in BOOLEAN : canvas' = IF found THEN DefaultCanvas ELSE NoCanvas
  /\ UNCHANGED <<now, pc, rafPending, running, startTime, uMouse, asciiParams,
                 tileSizeAnimation, updateClock, video, videoCanvas, SAMPLING,
                 ALPHA_THRESHOLD, position, color, particleVbo, reads, innerSize, twin, pointer, shade, frag,
                 framebuffer, renderTexture, pass1Draw, pass2Draw, frameLog>>

\* loadedmetadata: the video canvas takes the video's size, load() resolves
LoadResolves ==
  /\ boot = "load"
  /\ pc = "idle"
  /\ \E rs \in ReadyStates, px \in VideoFrames :
       video' = [exists |-> TRUE, readyState |-> rs, pixels |-> px]
  /\ videoCanvas' = <<VideoWidth, VideoHeight>>
  /\ boot' = "setup"
  /\ UNCHANGED <<now, pc, rafPending, running, startTime, uMouse, asciiParams,
                 tileSizeAnimation, updateClock, SAMPLING,
                 ALPHA_THRESHOLD, position, color, particleVbo, reads, innerSize, twin, pointer, shade, frag,
                 canvas, framebuffer, renderTexture, pass1Draw, pass2Draw, frameLog>>

\* the video element reports an error: load() rejects, the handler stops
LoadRejects ==
  /\ boot = "load"
  /\ pc = "idle"
  /\ video' = [exists |-> TRUE, readyState |-> 0, pixels |-> <<>>]
  /\ boot' = "error"
  /\ UNCHANGED <<now, pc, rafPending, running, startTime, uMouse, asciiParams,
                 tileSizeAnimation, updateClock, videoCanvas, SAMPLING,
                 ALPHA_THRESHOLD, position, color, particleVbo, reads, innerSize, twin, pointer, shade, frag,
                 canvas, framebuffer, renderTexture, pass1Draw, pass2Draw, frameLog>>

\* what gl.checkFramebufferStatus can report for the new off-screen target
FramebufferStatuses == {"FRAMEBUFFER_COMPLETE", "FRAMEBUFFER_UNSUPPORTED"}

\* setup(): geometry, framebuffer, resize, GUI, running flag, animator armed
\* (the screen quad, the glyph atlas, the clear colour and the blend mode are
\* set here once and never written again: they are not part of the state)
Setup ==
  /\ boot = "setup"
  /\ \E isMobile \in BOOLEAN :
       SAMPLING' = IF isMobile THEN MobileSampling ELSE DesktopSampling
  /\ ALPHA_THRESHOLD' = AlphaThreshold
  /\ position' = <<>>
  /\ color' = <<>>
  /\ particleVbo' = <<<<>>, <<>>>>
  /\ \E status \in FramebufferStatuses : framebuffer' = status
  /\ LET r == resize(innerSize, framebuffer', canvas)
     IN  /\ canvas' = r.canvas
         /\ renderTexture' = r.renderTexture
  /\ running' = TRUE
  /\ tileSizeAnimation' = startTileSizeAnimation(tileSizeAnimation, now)
  /\ boot' = "render"
  /\ UNCHANGED <<now, pc, rafPending, startTime, uMouse, asciiParams,
                 updateClock, video, videoCanvas, reads, innerSize, twin, pointer, shade, frag,
                 pass1Draw, pass2Draw, frameLog>>

(***************************************************************************)
(* render(): one invocation per display frame.  The statements of the      *)
(* handler run in the order of RenderOrder; no other handler runs between  *)
(* them.                                                                   *)
(***************************************************************************)
\* variant: the display pass is issued before the off-screen pass
RenderOrderPass2First == <<"animate", "extract", "pass2", "pass1">>

RenderOrder == <<"animate", "extract", "pass1", "pass2">>

StepIndex(step) == CHOOSE k \in 1..Len(RenderOrder) : RenderOrder[k] = step

StepAfter(step) ==
  IF StepIndex(step) = Len(RenderOrder) THEN "idle" ELSE RenderOrder[StepIndex(step) + 1]

\* variant: the next frame is requested whatever the flag says
RenderScheduleAlways ==
  /\ pc = "idle"
  /\ \/ boot = "render"
     \/ boot = "done" /\ rafPending > 0
  /\ rafPending' = (IF boot = "done" THEN rafPending - 1 ELSE rafPending)
                   + 1
  /\ boot' = "done"
  /\ pc' = RenderOrder[1]
  /\ frameLog' = <<>>
  /\ UNCHANGED <<now, running, startTime, uMouse, asciiParams,
                 tileSizeAnimation, updateClock, video, videoCanvas, SAMPLING,
                 ALPHA_THRESHOLD, position, color, particleVbo, reads, innerSize, twin, pointer, shade, frag,
                 canvas, framebuffer, renderTexture, pass1Draw, pass2Draw>>

\* variant: the next frame is requested at entry and once more
RenderScheduleTwice ==
  /\ pc = "idle"
  /\ \/ boot = "render"
     \/ boot = "done" /\ rafPending > 0
  /\ rafPending' = (IF boot = "done" THEN rafPending - 1 ELSE rafPending)
                   + (IF running = TRUE THEN 2 ELSE 0)
  /\ boot' = "done"
  /\ pc' = RenderOrder[1]
  /\ frameLog' = <<>>
  /\ UNCHANGED <<now, running, startTime, uMouse, asciiParams,
                 tileSizeAnimation, updateClock, video, videoCanvas, SAMPLING,
                 ALPHA_THRESHOLD, position, color, particleVbo, reads, innerSize, twin, pointer, shade, frag,
                 canvas, framebuffer, renderTexture, pass1Draw, pass2Draw>>

\* entry of render(): the next frame is requested while the flag is set
RenderSchedule ==
  /\ pc = "idle"
  /\ \/ boot = "render"
     \/ boot = "done" /\ rafPending > 0
  /\ rafPending' = (IF boot = "done" THEN rafPending - 1 ELSE rafPending)
                   + (IF running = TRUE THEN 1 ELSE 0)
  /\ boot' = "done"
  /\ pc' = RenderOrder[1]
  /\ frameLog' = <<>>
  /\ UNCHANGED <<now, running, startTime, uMouse, asciiParams,
                 tileSizeAnimation, updateClock, video, videoCanvas, SAMPLING,
                 ALPHA_THRESHOLD, position, color, particleVbo, reads, innerSize, twin, pointer, shade, frag,
                 canvas, framebuffer, renderTexture, pass1Draw, pass2Draw>>

\* this.updateTileSizeAnimation()
RenderAnimate ==
  /\ pc = "animate"
  /\ LET r == updateTileSizeAnimation(tileSizeAnimation, asciiParams, now)
     IN  /\ tileSizeAnimation' = r.anim
         /\ asciiParams' = r.params
  /\ updateClock' = now
  /\ frameLog' = Append(frameLog, "animate")
  /\ pc' = StepAfter("animate")
  /\ UNCHANGED <<now, boot, rafPending, running, startTime, uMouse,
                 video, videoCanvas, SAMPLING,
                 ALPHA_THRESHOLD, position, color, particleVbo, reads, innerSize, twin, pointer, shade, frag,
                 canvas, framebuffer, renderTexture, pass1Draw, pass2Draw>>

\* if (this.video && this.video.readyState >= 2) this.updateParticlesFromVideo()
RenderExtract ==
  /\ pc = "extract"
  /\ IF video.exists /\ video.readyState >= HaveCurrentData
     THEN LET r == updateParticlesFromVideo(video.pixels, videoCanvas[1], videoCanvas[2],
                                            SAMPLING, ALPHA_THRESHOLD)
          IN  /\ position' = r.position
              /\ color' = r.color
              /\ particleVbo' = <<r.position, r.color>>
              /\ reads' = r.reads
              /\ frameLog' = Append(frameLog, "extract")
     ELSE UNCHANGED <<position, color, particleVbo, reads, frameLog>>
  /\ pc' = StepAfter("extract")
  /\ UNCHANGED <<now, boot, rafPending, running, startTime, uMouse, asciiParams,
                 tileSizeAnimation, updateClock, video, videoCanvas, SAMPLING,
                 ALPHA_THRESHOLD, innerSize, twin, pointer, shade, frag,
                 canvas, framebuffer, renderTexture, pass1Draw, pass2Draw>>

\* Pass 1: the particles are drawn as points into the off-screen target
RenderPass1 ==
  /\ pc = "pass1"
  /\ pass1Draw' = [issued |-> TRUE, target |-> framebuffer, vbo |-> particleVbo,
                   mouse |-> uMouse, resolution |-> canvas,
                   time |-> Rat(now - startTime, 1000),
                   count |-> Len(position) \div 3]
  /\ frameLog' = Append(frameLog, "pass1")
  /\ pc' = StepAfter("pass1")
  /\ UNCHANGED <<now, boot, rafPending, running, startTime, uMouse, asciiParams,
                 tileSizeAnimation, updateClock, video, videoCanvas, SAMPLING,
                 ALPHA_THRESHOLD, position, color, particleVbo, reads, innerSize, twin, pointer, shade, frag,
                 canvas, framebuffer, renderTexture, pass2Draw>>

\* Pass 2: the off-screen texture is drawn to the display as ASCII tiles
RenderPass2 ==
  /\ pc = "pass2"
  /\ pass2Draw' = [issued |-> TRUE, resolution |-> canvas, texture |-> renderTexture,
                   colorStep |-> asciiParams.colorStep,
                   tileSize |-> asciiParams.tileSize,
                   tileStrength |-> asciiParams.tileStrength,
                   bioMode |-> IF asciiParams.bioMode THEN 1 ELSE 0]
  /\ frameLog' = Append(frameLog, "pass2")
  /\ pc' = StepAfter("pass2")
  /\ UNCHANGED <<now, boot, rafPending, running, startTime, uMouse, asciiParams,
                 tileSizeAnimation, updateClock, video, videoCanvas, SAMPLING,
                 ALPHA_THRESHOLD, position, color, particleVbo, reads, innerSize, twin, pointer, shade, frag,
                 canvas, framebuffer, renderTexture, pass1Draw>>

Next ==
  \/ Tick
  \/ VideoEvent
  \/ GuiSetTileSize
  \/ AppInit
  \/ AppInitThrows
  \/ LoadResolves
  \/ LoadRejects
  \/ Setup
  \/ RenderSchedule
  \/ RenderAnimate
  \/ RenderExtract
  \/ RenderPass1
  \/ RenderPass2

Spec == Init /\ [][Next]_vars

(***************************************************************************)
(* The Particle Extractor on its own: every frame of at most MaxPixels     *)
(* pixels over the palette, every stride and threshold within the bounds,  *)
(* with the extraction applied to it.                                      *)
(***************************************************************************)
Thresholds == {AlphaThreshold, AlphaThreshold + 1}

\* what the particle buffer may hold from the frame before
StaleBuffers ==
  {[position |-> <<>>, color |-> <<>>],
   [position |-> <<RInt(0 - 1), RInt(1), RInt(0)>>,
    color |-> <<Rat(251, 255), Rat(251, 255), Rat(250, 255), RInt(1)>>]}

InitExtract ==
  /\ now = 0
  /\ boot = "done"
  /\ pc = "idle"
  /\ rafPending = 0
  /\ running = FALSE
  /\ startTime = 0
  /\ uMouse = <<RInt(0), RInt(0)>>
  /\ asciiParams = InitialParams
  /\ tileSizeAnimation = InitialAnimation
  /\ updateClock = Unset
  /\ \E w \in 1..MaxPixels, h \in 1..MaxPixels :
       /\ w * h <= MaxPixels
       /\ videoCanvas = <<w, h>>
       /\ \E px \in Frames(w, h) :
            video = [exists |-> TRUE, readyState |-> 4, pixels |-> px]
  /\ SAMPLING \in 1..MaxStride
  /\ ALPHA_THRESHOLD \in Thresholds
  /\ \E stale \in StaleBuffers :
       /\ position = stale.position
       /\ color = stale.color
       /\ particleVbo = <<stale.position, stale.color>>
  /\ reads = <<>>
  /\ innerSize \in WindowSizes
  /\ twin = NoTwin
  /\ pointer = NoPointer
  /\ shade = NoShade
  /\ frag = NoFrag
  /\ canvas = DefaultCanvas
  /\ framebuffer = Null
  /\ renderTexture = <<0, 0>>
  /\ pass1Draw = NoDraw
  /\ pass2Draw = NoDraw
  /\ frameLog = <<>>

ExtractFrame ==
  /\ LET r == updateParticlesFromVideo(video.pixels, videoCanvas[1], videoCanvas[2],
                                       SAMPLING, ALPHA_THRESHOLD)
     IN  /\ position' = r.position
         /\ color' = r.color
         /\ particleVbo' = <<r.position, r.color>>
         /\ reads' = r.reads
  /\ frameLog' = <<"extract">>
  /\ UNCHANGED <<now, boot, pc, rafPending, running, startTime, uMouse, asciiParams,
                 tileSizeAnimation, updateClock, video, videoCanvas, SAMPLING,
                 ALPHA_THRESHOLD, innerSize, twin, pointer, shade, frag,
                 canvas, framebuffer, renderTexture, pass1Draw, pass2Draw>>

NextExtract == ExtractFrame

SpecExtract == InitExtract /\ [][NextExtract]_vars

(***************************************************************************)
(* The pipeline with nobody touching the GUI pane.                         *)
(***************************************************************************)
NextAuto ==
  \/ Tick
  \/ VideoEvent
  \/ AppInit
  \/ AppInitThrows
  \/ LoadResolves
  \/ LoadRejects
  \/ Setup
  \/ RenderSchedule
  \/ RenderAnimate
  \/ RenderExtract
  \/ RenderPass1
  \/ RenderPass2

SpecAuto == Init /\ [][NextAuto]_vars

(***************************************************************************)
(* Cancellation: something outside render() clears the running flag        *)
(* between two handlers.  The program itself never clears it.              *)
(***************************************************************************)
StopPipeline ==
  /\ HandlerIdle
  /\ running = TRUE
  /\ running' = FALSE
  /\ UNCHANGED <<now, boot, pc, rafPending, startTime, uMouse, asciiParams,
                 tileSizeAnimation, updateClock, video, videoCanvas, SAMPLING,
                 ALPHA_THRESHOLD, position, color, particleVbo, reads, innerSize, twin,
                 pointer, shade, frag, canvas, framebuffer, renderTexture, pass1Draw,
                 pass2Draw, frameLog>>

NextStop == NextAuto \/ StopPipeline

SpecStop == Init /\ [][NextStop]_vars

(***************************************************************************)
(* The pointer: the pointermove listener registered by the constructor.    *)
(***************************************************************************)
PagePoints == {<<8, 3>>, <<32, 0>>}

\* variant: the vertical axis is stored without the inversion
pointermoveUnflipped(mouseEvent) ==
  LET x == Rat(mouseEvent.pageX, mouseEvent.innerWidth)
      y == Rat(mouseEvent.pageY, mouseEvent.innerHeight)
      signedX == RSub(RMul(x, RInt(2)), RInt(1))
      signedY == RSub(RMul(y, RInt(2)), RInt(1))
  IN  <<signedX, signedY>>

\* the value the handler leaves in uMouse; window.innerWidth and
\* window.innerHeight are read when the event is handled
pointermove(mouseEvent) ==
  LET x == Rat(mouseEvent.pageX, mouseEvent.innerWidth)
      y == Rat(mouseEvent.pageY, mouseEvent.innerHeight)
      signedX == RSub(RMul(x, RInt(2)), RInt(1))
      signedY == RSub(RMul(y, RInt(2)), RInt(1))
  IN  <<signedX, RNeg(signedY)>>

PointerMove ==
  /\ HandlerIdle
  /\ \E p \in PagePoints :
       LET mouseEvent == [delivered |-> TRUE, pageX |-> p[1], pageY |-> p[2],
                          innerWidth |-> innerSize[1], innerHeight |-> innerSize[2]]
       IN  /\ pointer' = mouseEvent
           /\ uMouse' = pointermove(mouseEvent)
  /\ UNCHANGED <<now, boot, pc, rafPending, running, startTime, asciiParams,
                 tileSizeAnimation, updateClock, video, videoCanvas, SAMPLING,
                 ALPHA_THRESHOLD, position, color, particleVbo, reads, innerSize, twin,
                 shade, frag, canvas, framebuffer, renderTexture, pass1Draw,
                 pass2Draw, frameLog>>

NextPointer == NextAuto \/ PointerMove

SpecPointer == Init /\ [][NextPointer]_vars

(***************************************************************************)
(* The Color Step binding of the GUI pane: the slider writes a value of    *)
(* its range (min 0.05, max 0.2, step 0.01) into asciiParams.              *)
(***************************************************************************)
GuiColorSteps == {Rat(1, 20), Rat(1, 5)}

GuiSetColorStep ==
  /\ HandlerIdle
  /\ boot = "done"
  /\ \E v \in GuiColorSteps :
       /\ asciiParams.colorStep # v
       /\ asciiParams' = [asciiParams EXCEPT !.colorStep = v]
  /\ UNCHANGED <<now, boot, pc, rafPending, running, startTime, uMouse,
                 tileSizeAnimation, updateClock, video, videoCanvas, SAMPLING,
                 ALPHA_THRESHOLD, position, color, particleVbo, reads, innerSize, twin,
                 pointer, shade, frag, canvas, framebuffer, renderTexture, pass1Draw,
                 pass2Draw, frameLog>>

\* the pane at work while the video shows one still frame
NextGui ==
  \/ Tick
  \/ GuiSetTileSize
  \/ GuiSetColorStep
  \/ AppInit
  \/ AppInitThrows
  \/ LoadResolves
  \/ LoadRejects
  \/ Setup
  \/ RenderSchedule
  \/ RenderAnimate
  \/ RenderExtract
  \/ RenderPass1
  \/ RenderPass2

SpecGui == Init /\ [][NextGui]_vars

(***************************************************************************)
(* The window: resize events, handled by app.resize, which is registered   *)
(* before init.  Without a canvas element the handler throws at its first  *)
(* write and nothing changes.                                              *)
(***************************************************************************)
ResizedSizes == {<<32, 9>>, <<20, 30>>}

Resize ==
  /\ HandlerIdle
  /\ \E win \in ResizedSizes :
       /\ win # innerSize
       /\ innerSize' = win
       /\ IF canvas = NoCanvas
          THEN UNCHANGED <<canvas, renderTexture>>
          ELSE LET r == resize(win, framebuffer, renderTexture)
               IN  /\ canvas' = r.canvas
                   /\ renderTexture' = r.renderTexture
  /\ UNCHANGED <<now, boot, pc, rafPending, running, startTime, uMouse, asciiParams,
                 tileSizeAnimation, updateClock, video, videoCanvas, SAMPLING,
                 ALPHA_THRESHOLD, position, color, particleVbo, reads, twin, pointer,
                 shade, frag, framebuffer, pass1Draw, pass2Draw, frameLog>>

NextResize == NextAuto \/ Resize

SpecResize == Init /\ [][NextResize]_vars

(***************************************************************************)
(* Two frame schedules of the same page: the twin instance is armed at the *)
(* instant the first is, and runs its animator whenever its own frames     *)
(* fall, with no GUI writes on either side.                                *)
(***************************************************************************)
TwinFrame ==
  /\ boot = "done"
  /\ pc = "idle"
  /\ LET armed == IF twin.updateClock = Unset
                  THEN startTileSizeAnimation(twin.tileSizeAnimation,
                                              tileSizeAnimation.startTime)
                  ELSE twin.tileSizeAnimation
         r == updateTileSizeAnimation(armed, twin.asciiParams, now)
     IN  twin' = [tileSizeAnimation |-> r.anim, asciiParams |-> r.params,
                  updateClock |-> now]
  /\ twin' # twin
  /\ UNCHANGED <<now, boot, pc, rafPending, running, startTime, uMouse, asciiParams,
                 tileSizeAnimation, updateClock, video, videoCanvas, SAMPLING,
                 ALPHA_THRESHOLD, position, color, particleVbo, reads, innerSize,
                 pointer, shade, frag,
                 canvas, framebuffer, renderTexture, pass1Draw, pass2Draw, frameLog>>

NextTwin == NextAuto \/ TwinFrame

SpecTwin == Init /\ [][NextTwin]_vars

(***************************************************************************)
(* Displacement Field Evaluator: the particle vertex shader main.vert.     *)
(* A float is a rational or NaN, written 0/0.  exp and sin have no         *)
(* rational values: exp(-x) is 1 at x = 0 and below 1/(1 + x) elsewhere,   *)
(* the sine of the time phase is somewhere in [-1, 1]; the shader body     *)
(* takes a value of each as an argument.  normalize of the zero vector is  *)
(* undefined in GLSL: drivers yield NaN (0 * inversesqrt(0)) or zero.      *)
(***************************************************************************)
NaN == <<0, 0>>
IsNaN(a) == a[2] = 0
FAdd(a, b) == IF IsNaN(a) \/ IsNaN(b) THEN NaN ELSE RAdd(a, b)
FMul(a, b) == IF IsNaN(a) \/ IsNaN(b) THEN NaN ELSE RMul(a, b)
FDiv(a, b) == IF IsNaN(a) \/ IsNaN(b) \/ b[1] = 0 THEN NaN ELSE RDiv(a, b)

IsSquare(n) == \E r \in 0..n : r * r = n
ISqrt(n) == CHOOSE r \in 0..n : r * r = n
HasRoot(a) == IsSquare(a[1]) /\ IsSquare(a[2])
RSqrt(a) == <<ISqrt(a[1]), ISqrt(a[2])>>

Aspect(resolution) == Rat(resolution[1], resolution[2])
ToMouse(pos, mouse, resolution) ==
  LET aspect == Aspect(resolution)
      correctedPosition == <<RMul(pos[1], aspect), pos[2]>>
      correctedMouse == <<RMul(mouse[1], aspect), mouse[2]>>
  IN  <<RSub(correctedMouse[1], correctedPosition[1]),
        RSub(correctedMouse[2], correctedPosition[2])>>
LengthSquared(v) == RAdd(RMul(v[1], v[1]), RMul(v[2], v[2]))
Length(v) == RSqrt(LengthSquared(v))

ZeroVec == <<RInt(0), RInt(0)>>
NaNVec == <<NaN, NaN>>
NormalizeOutcomes(v) ==
  IF v = ZeroVec
  THEN {NaNVec, ZeroVec}
  ELSE {<<RDiv(v[1], Length(v)), RDiv(v[2], Length(v))>>}
ExpNegOutcomes(x) ==
  IF x = RInt(0)
  THEN {RInt(1)}
  ELSE {RDiv(RInt(1), RAdd(RInt(1), x)), RDiv(RInt(1), RMul(RInt(2), RAdd(RInt(1), x)))}
SinOutcomes == {RInt(0 - 1), RInt(0), RInt(1)}

\* main() of the vertex shader, given exp(-distanceToMouse * 2.0), the sine
\* of the time phase and normalize(toMouse)
VertexMain(pos, col, mouse, resolution, explosion, sinPhase, normalizedToMouse) ==
  LET aspect == Aspect(resolution)
      toMouse == ToMouse(pos, mouse, resolution)
      explosionTime == RAdd(RMul(sinPhase, Rat(1, 2)), Rat(1, 2))
      strength == RMul(RMul(explosion, explosionTime), Rat(8, 10))
      offset == <<FDiv(FMul(RNeg(normalizedToMouse[1]), strength), aspect),
                  FMul(RNeg(normalizedToMouse[2]), strength)>>
      zOffset == RMul(RMul(explosion, explosionTime), RInt(3))
      heat == RMul(explosion, explosionTime)
  IN  [done |-> TRUE, position |-> pos, color |-> col, mouse |-> mouse,
       resolution |-> resolution, toMouse |-> toMouse, offset |-> offset,
       gl_Position |-> <<FAdd(pos[1], offset[1]), FAdd(pos[2], offset[2]),
                         RAdd(pos[3], zOffset), RInt(1)>>,
       vColor |-> <<RAdd(col[1], heat), RAdd(col[2], RMul(Rat(1, 2), heat)),
                    col[3], col[4]>>,
       gl_PointSize |-> RAdd(RMul(RInt(3), RSub(RInt(1), heat)), RMul(RInt(35), heat))]

(***************************************************************************)
(* The shaders on their own: the page is at rest and one shader invocation *)
(* is evaluated on inputs drawn from the values the pipeline feeds it.     *)
(***************************************************************************)
StaticPage ==
  /\ now = 0
  /\ boot = "done"
  /\ pc = "idle"
  /\ rafPending = 0
  /\ running = FALSE
  /\ startTime = 0
  /\ uMouse = <<RInt(0), RInt(0)>>
  /\ asciiParams = InitialParams
  /\ tileSizeAnimation = InitialAnimation
  /\ updateClock = Unset
  /\ video = NoVideo
  /\ videoCanvas = <<0, 0>>
  /\ SAMPLING = Unset
  /\ ALPHA_THRESHOLD = Unset
  /\ position = <<>>
  /\ color = <<>>
  /\ particleVbo = <<>>
  /\ reads = <<>>
  /\ innerSize \in WindowSizes
  /\ twin = NoTwin
  /\ pointer = NoPointer
  /\ canvas = DefaultCanvas
  /\ framebuffer = Null
  /\ renderTexture = <<0, 0>>
  /\ pass1Draw = NoDraw
  /\ pass2Draw = NoDraw
  /\ frameLog = <<>>

VertexPositions ==
  {<<RInt(0 - 1), RInt(1), RInt(0)>>, <<RInt(0), RInt(0), RInt(0)>>,
   <<Rat(1, 2), Rat(0 - 1, 2), RInt(0)>>, <<Rat(0 - 1, 2), RInt(0), RInt(0)>>}
VertexColors == {<<RInt(0), RInt(0), RInt(0), RInt(1)>>,
                 <<Rat(1, 2), Rat(1, 5), Rat(1, 5), RInt(1)>>}
MousePositions ==
  {<<RInt(0), RInt(0)>>, <<Rat(1, 2), Rat(0 - 1, 2)>>, <<RInt(0 - 1), RInt(1)>>,
   <<Rat(1, 2), RInt(0)>>}
Resolutions == {<<16, 9>>, <<20, 11>>}

InitShader ==
  /\ StaticPage
  /\ frag = NoFrag
  /\ \E pos \in VertexPositions, col \in VertexColors, mouse \in MousePositions,
        resolution \in Resolutions :
       /\ HasRoot(LengthSquared(ToMouse(pos, mouse, resolution)))
       /\ shade = [done |-> FALSE, position |-> pos, color |-> col, mouse |-> mouse,
                   resolution |-> resolution]

EvaluateVertex ==
  /\ ~shade.done
  /\ LET toMouse == ToMouse(shade.position, shade.mouse, shade.resolution)
         distanceToMouse == Length(toMouse)
     IN  \E explosion \in ExpNegOutcomes(RMul(distanceToMouse, RInt(2))),
            sinPhase \in SinOutcomes,
            normalizedToMouse \in NormalizeOutcomes(toMouse) :
           shade' = VertexMain(shade.position, shade.color, shade.mouse, shade.resolution,
                               explosion, sinPhase, normalizedToMouse)
  /\ UNCHANGED <<now, boot, pc, rafPending, running, startTime, uMouse, asciiParams,
                 tileSizeAnimation, updateClock, video, videoCanvas, SAMPLING,
                 ALPHA_THRESHOLD, position, color, particleVbo, reads, innerSize, twin,
                 pointer, frag, canvas, framebuffer, renderTexture, pass1Draw,
                 pass2Draw, frameLog>>

NextShader == EvaluateVertex

SpecShader == InitShader /\ [][NextShader]_vars

(***************************************************************************)
(* Tile Quantizer: the ASCII fragment shader ascii.frag.  The two texture  *)
(* fetches are arguments: texColor is the texel of the off-screen texture  *)
(* at the tile centre, asciiCharR the red channel of the atlas texel.      *)
(***************************************************************************)
RFloor(a) == RInt(a[1] \div a[2])
RFract(a) == RSub(a, RFloor(a))

\* variant: the bio branch is taken when the mode is off
FragmentMainBioInverted(uResolution, uTileSize, uTileStrength, uAsciiColorStep, uBioMode, vUv, texColor, asciiCharR) ==
  LET tileCount == <<RFloor(RDiv(RInt(uResolution[1]), uTileSize)),
                     RFloor(RDiv(RInt(uResolution[2]), uTileSize))>>
      tileUv == <<RFract(RMul(vUv[1], tileCount[1])), RFract(RMul(vUv[2], tileCount[2]))>>
      tileId == <<RFloor(RMul(vUv[1], tileCount[1])), RFloor(RMul(vUv[2], tileCount[2]))>>
      tileCenter == <<FDiv(RAdd(tileId[1], Rat(1, 2)), tileCount[1]),
                      FDiv(RAdd(tileId[2], Rat(1, 2)), tileCount[2])>>
      luminance == RAdd(RAdd(RMul(texColor[1], Rat(299, 1000)),
                             RMul(texColor[2], Rat(587, 1000))),
                        RMul(texColor[3], Rat(114, 1000)))
      charIndex == RDiv(RFloor(RMul(luminance, RInt(10))), RInt(10))
      asciiUv == <<RAdd(charIndex, RDiv(tileUv[1], RInt(10))), Rat(1, 2)>>
      charBrightness == RMul(asciiCharR, uTileStrength)
      posterized == [c \in 1..3 |->
                       RMul(RFloor(RDiv(texColor[c], uAsciiColorStep)), uAsciiColorStep)]
      steppedColor == IF uBioMode = 0
                      THEN <<RInt(0), posterized[2], RInt(0)>>
                      ELSE posterized
  IN  [done |-> TRUE, uResolution |-> uResolution, uTileSize |-> uTileSize,
       uTileStrength |-> uTileStrength, uAsciiColorStep |-> uAsciiColorStep,
       uBioMode |-> uBioMode, vUv |-> vUv, texColor |-> texColor,
       asciiCharR |-> asciiCharR, tileCount |-> tileCount, tileUv |-> tileUv,
       tileCenter |-> tileCenter, luminance |-> luminance, charIndex |-> charIndex,
       asciiUv |-> asciiUv, charBrightness |-> charBrightness,
       posterized |-> posterized, steppedColor |-> steppedColor,
       gl_FragColor |-> <<RMul(steppedColor[1], charBrightness),
                          RMul(steppedColor[2], charBrightness),
                          RMul(steppedColor[3], charBrightness), RInt(1)>>]

\* main() of the fragment shader
FragmentMain(uResolution, uTileSize, uTileStrength, uAsciiColorStep, uBioMode, vUv, texColor, asciiCharR) ==
  LET tileCount == <<RFloor(RDiv(RInt(uResolution[1]), uTileSize)),
                     RFloor(RDiv(RInt(uResolution[2]), uTileSize))>>
      tileUv == <<RFract(RMul(vUv[1], tileCount[1])), RFract(RMul(vUv[2], tileCount[2]))>>
      tileId == <<RFloor(RMul(vUv[1], tileCount[1])), RFloor(RMul(vUv[2], tileCount[2]))>>
      tileCenter == <<FDiv(RAdd(tileId[1], Rat(1, 2)), tileCount[1]),
                      FDiv(RAdd(tileId[2], Rat(1, 2)), tileCount[2])>>
      luminance == RAdd(RAdd(RMul(texColor[1], Rat(299, 1000)),
                             RMul(texColor[2], Rat(587, 1000))),
                        RMul(texColor[3], Rat(114, 1000)))
      charIndex == RDiv(RFloor(RMul(luminance, RInt(10))), RInt(10))
      asciiUv == <<RAdd(charIndex, RDiv(tileUv[1], RInt(10))), Rat(1, 2)>>
      charBrightness == RMul(asciiCharR, uTileStrength)
      posterized == [c \in 1..3 |->
                       RMul(RFloor(RDiv(texColor[c], uAsciiColorStep)), uAsciiColorStep)]
      steppedColor == IF uBioMode = 1
                      THEN <<RInt(0), posterized[2], RInt(0)>>
                      ELSE posterized
  IN  [done |-> TRUE, uResolution |-> uResolution, uTileSize |-> uTileSize,
       uTileStrength |-> uTileStrength, uAsciiColorStep |-> uAsciiColorStep,
       uBioMode |-> uBioMode, vUv |-> vUv, texColor |-> texColor,
       asciiCharR |-> asciiCharR, tileCount |-> tileCount, tileUv |-> tileUv,
       tileCenter |-> tileCenter, luminance |-> luminance, charIndex |-> charIndex,
       asciiUv |-> asciiUv, charBrightness |-> charBrightness,
       posterized |-> posterized, steppedColor |-> steppedColor,
       gl_FragColor |-> <<RMul(steppedColor[1], charBrightness),
                          RMul(steppedColor[2], charBrightness),
                          RMul(steppedColor[3], charBrightness), RInt(1)>>]

\* texels of the off-screen texture: the clear colour, black, particle colours
ClearColor == <<RInt(1), RInt(1), RInt(1), RInt(1)>>
SourceColors ==
  {ClearColor, <<RInt(0), RInt(0), RInt(0), RInt(1)>>,
   <<Rat(251, 255), Rat(251, 255), Rat(250, 255), RInt(1)>>,
   <<Rat(128, 255), Rat(64, 255), Rat(200, 255), RInt(1)>>,
   <<Rat(30, 255), Rat(90, 255), Rat(10, 255), RInt(1)>>}
GlyphMasks == {RInt(0), Rat(1, 2), RInt(1)}
FragCoords == {<<RInt(0), RInt(0)>>, <<Rat(1, 3), Rat(2, 3)>>, <<Rat(19, 20), Rat(1, 2)>>}
FragResolutions == {<<320, 180>>}
TileSizes == {RInt(AnimEndValue), RInt(AnimStartValue)}
TileStrengths == {Rat(1, 2), RInt(2)}
ColorSteps == {Rat(1, 100), Rat(1, 20), Rat(1, 5)}

InitQuantize ==
  /\ StaticPage
  /\ shade = NoShade
  /\ \E uResolution \in FragResolutions, uTileSize \in TileSizes,
        uTileStrength \in TileStrengths, uAsciiColorStep \in ColorSteps,
        uBioMode \in {0, 1}, vUv \in FragCoords, texColor \in SourceColors,
        asciiCharR \in GlyphMasks :
       frag = [done |-> FALSE, uResolution |-> uResolution, uTileSize |-> uTileSize,
               uTileStrength |-> uTileStrength, uAsciiColorStep |-> uAsciiColorStep,
               uBioMode |-> uBioMode, vUv |-> vUv, texColor |-> texColor,
               asciiCharR |-> asciiCharR]

EvaluateFragment ==
  /\ ~frag.done
  /\ frag' = FragmentMain(frag.uResolution, frag.uTileSize, frag.uTileStrength,
                          frag.uAsciiColorStep, frag.uBioMode, frag.vUv, frag.texColor,
                          frag.asciiCharR)
  /\ UNCHANGED <<now, boot, pc, rafPending, running, startTime, uMouse, asciiParams,
                 tileSizeAnimation, updateClock, video, videoCanvas, SAMPLING,
                 ALPHA_THRESHOLD, position, color, particleVbo, reads, innerSize, twin,
                 pointer, shade, canvas, framebuffer, renderTexture, pass1Draw,
                 pass2Draw, frameLog>>

NextQuantize == EvaluateFragment

SpecQuantize == InitQuantize /\ [][NextQuantize]_vars

(***************************************************************************)
(* Vocabulary of the properties.                                           *)
(***************************************************************************)
LogSteps == {frameLog[k] : k \in 1..Len(frameLog)}
FrameDone == boot = "done" /\ pc = "idle" /\ frameLog # <<>>
Armed == boot \in {"render", "done"}
Settled == Armed /\ ~tileSizeAnimation.isAnimating
Elapsed == now - tileSizeAnimation.startTime
ParticleCount == Len(position) \div 3
Extracted == frameLog = <<"extract">>

\* Idle 0, Delaying 1, Interpolating 2, Settled 3
AnimRank ==
  IF tileSizeAnimation.isAnimating
  THEN IF Elapsed < AnimDelay THEN 1 ELSE 2
  ELSE IF Armed THEN 3 ELSE 0

(***************************************************************************)
(* C1 as stated: within a frame the steps run in the order extraction,     *)
(* animator update, Pass 1, Pass 2.                                        *)
(***************************************************************************)
ClaimedRank(step) ==
  CASE step = "extract" -> 1 [] step = "animate" -> 2
    [] step = "pass1" -> 3 [] step = "pass2" -> 4

C1_ClaimedOrder ==
  \A i, j \in 1..Len(frameLog) :
    i < j => ClaimedRank(frameLog[i]) < ClaimedRank(frameLog[j])

(***************************************************************************)
(* C1 amended: within a frame the steps run in the order animator update,  *)
(* extraction (when the source is ready), Pass 1, Pass 2; extraction never *)
(* runs before that frame's animator update, Pass 2 never before Pass 1,   *)
(* and a finished frame has run the animator and both passes.              *)
(***************************************************************************)
IssuedRank(step) ==
  CASE step = "animate" -> 1 [] step = "extract" -> 2
    [] step = "pass1" -> 3 [] step = "pass2" -> 4

C1_FrameOrder ==
  /\ \A i, j \in 1..Len(frameLog) :
       i < j => IssuedRank(frameLog[i]) < IssuedRank(frameLog[j])
  /\ FrameDone => {"animate", "pass1", "pass2"} \subseteq LogSteps

C1_Witness == FrameDone /\ frameLog = <<"animate", "extract", "pass1", "pass2">>

(***************************************************************************)
(* C2: the animator only moves forward through Idle, Delaying,             *)
(* Interpolating, Settled; it is armed only by setup, before any frame;    *)
(* its start time never changes once armed; a frame whose update sees      *)
(* elapsed >= delay + duration leaves it Settled, and Settled is kept.     *)
(***************************************************************************)
C2_AnimatorOrder ==
  /\ [](frameLog # <<>> \/ pc # "idle" \/ pass1Draw.issued \/ pass2Draw.issued => Armed)
  /\ [][ /\ AnimRank' >= AnimRank
         /\ (AnimRank = 0 /\ AnimRank' # 0) =>
              (boot = "setup" /\ ~pass1Draw.issued /\ ~pass2Draw.issued)
         /\ Armed => tileSizeAnimation'.startTime = tileSizeAnimation.startTime
         /\ (pc = "animate" /\ pc' # "animate" /\ Elapsed >= AnimDelay + AnimDuration) =>
              ~tileSizeAnimation'.isAnimating
         /\ Settled => Settled' ]_vars

C2_Witness ==
  /\ FrameDone
  /\ Settled
  /\ updateClock - tileSizeAnimation.startTime >= AnimDelay + AnimDuration
  /\ tileSizeAnimation.startTime > 0

(***************************************************************************)
(* C3: with delay 2000, duration 2000, start 100, end 10 and no GUI write, *)
(* the tile size after an update at elapsed e is 100 for e <= 2000,        *)
(* 10 + 90 (1-p)^3 with p = (e-2000)/2000 for 2000 <= e < 4000 (21.25 at   *)
(* e = 3000), and 10 with the animator Settled for e >= 4000.              *)
(***************************************************************************)
ClaimedTileSize(e) ==
  IF e < 2000 THEN RInt(100)
  ELSE IF e < 4000
  THEN LET k == (4000 - e) \div TimeStep
           d == TicksPerDuration
       IN  Rat(10 * d * d * d + 90 * k * k * k, d * d * d)
  ELSE RInt(10)

C3_TileSizeAtElapsed ==
  updateClock # Unset =>
    LET e == updateClock - tileSizeAnimation.startTime
    IN  /\ asciiParams.tileSize = ClaimedTileSize(e)
        /\ e = 2000 => asciiParams.tileSize = <<100, 1>>
        /\ e = 3000 => asciiParams.tileSize = <<85, 4>>
        /\ e >= 4000 => asciiParams.tileSize = <<10, 1>> /\ Settled
        /\ e < 4000 => tileSizeAnimation.isAnimating

C3_Witness ==
  /\ updateClock - tileSizeAnimation.startTime = 3000
  /\ asciiParams.tileSize = <<85, 4>>
  /\ pass2Draw.issued
  /\ pass2Draw.tileSize = <<85, 4>>

(***************************************************************************)
(* C4 as stated: in every frame drawn while the animator is Settled the    *)
(* Tile Quantizer reads endValue, whatever the GUI did.                    *)
(***************************************************************************)
C4_SettledIsEndValue ==
  (FrameDone /\ Settled) => pass2Draw.tileSize = tileSizeAnimation.endValue

(***************************************************************************)
(* C4 amended: the step that settles the animator writes endValue; once    *)
(* Settled the animator stays Settled and never writes the tile size       *)
(* again, so that only a GUI change of the tile size alters it; and Pass 2 *)
(* reads the tile size as it then stands.                                  *)
(***************************************************************************)
C4_SettledReadOnly ==
  [][ /\ (tileSizeAnimation.isAnimating /\ ~tileSizeAnimation'.isAnimating) =>
           asciiParams'.tileSize = tileSizeAnimation.endValue
      /\ Settled =>
           /\ Settled'
           /\ asciiParams'.tileSize = asciiParams.tileSize \/ GuiSetTileSize
      /\ (pc = "pass2" /\ pc' # "pass2") =>
           pass2Draw'.tileSize = asciiParams.tileSize ]_vars

C4_Witness ==
  /\ FrameDone
  /\ Settled
  /\ pass2Draw.tileSize = <<50, 1>>

(***************************************************************************)
(* C5: two frame schedules agree at equal elapsed time.  When a frame of   *)
(* the first schedule and a frame of the twin ran their animator at the    *)
(* same clock value, the tile size handed to Pass 2 and the animator state *)
(* are the same, whatever frames either schedule rendered before.          *)
(***************************************************************************)
C5_ScheduleIndependent ==
  (FrameDone /\ twin.updateClock = updateClock) =>
    /\ pass2Draw.tileSize = twin.asciiParams.tileSize
    /\ tileSizeAnimation.isAnimating = twin.tileSizeAnimation.isAnimating

\* the twin rendered a single frame, the first schedule rendered earlier
\* frames while interpolating, and both updated at the same clock value
C5_Witness ==
  /\ FrameDone
  /\ twin.updateClock = updateClock
  /\ updateClock - tileSizeAnimation.startTime = 3000
  /\ pass2Draw.tileSize = <<85, 4>>
  /\ twin.asciiParams.tileSize = <<85, 4>>

(***************************************************************************)
(* C6: the particles of one extraction are exactly the sampled pixel       *)
(* positions with alpha > threshold that are not near-white: as many       *)
(* particles as such positions, each particle from one of them.            *)
(***************************************************************************)
SampledPositions ==
  {p \in (0..(videoCanvas[1] - 1)) \X (0..(videoCanvas[2] - 1)) :
     p[1] % SAMPLING = 0 /\ p[2] % SAMPLING = 0}

PixelAt(p) ==
  LET base == (p[2] * videoCanvas[1] + p[1]) * 4
  IN  [k \in 1..4 |-> video.pixels[base + k - 1]]

Qualifies(p) ==
  LET px == PixelAt(p)
  IN  px[4] > ALPHA_THRESHOLD /\ ~(px[1] > 250 /\ px[2] > 250 /\ px[3] > 250)

\* the particle a qualifying pixel should give: position then colour
ParticleOf(p) ==
  LET px == PixelAt(p)
  IN  << <<Rat(2 * p[1] - videoCanvas[1], videoCanvas[1]),
           Rat(videoCanvas[2] - 2 * p[2], videoCanvas[2]), <<0, 1>>>>,
         <<Rat(px[1], 255), Rat(px[2], 255), Rat(px[3], 255), Rat(px[4], 255)>> >>

EmittedParticle(k) ==
  << SubSeq(position, 3 * k - 2, 3 * k), SubSeq(color, 4 * k - 3, 4 * k) >>

C6_ExactlyQualifying ==
  Extracted =>
    LET wanted == {p \in SampledPositions : Qualifies(p)}
    IN  /\ Len(position) = 3 * Cardinality(wanted)
        /\ Len(color) = 4 * Cardinality(wanted)
        /\ \A k \in 1..ParticleCount : \E p \in wanted : EmittedParticle(k) = ParticleOf(p)
        /\ \A p \in wanted : \E k \in 1..ParticleCount : EmittedParticle(k) = ParticleOf(p)

C6_Witness ==
  /\ Extracted
  /\ ParticleCount > 0
  /\ \E p \in SampledPositions : PixelAt(p) = White
  /\ \E p \in SampledPositions : PixelAt(p) = Faint /\ ~Qualifies(p)
  /\ \E p \in SampledPositions : PixelAt(p) = Dark

(***************************************************************************)
(* C7 as stated: the particle count is at most (width/stride) times        *)
(* (height/stride), the quotients taken as real numbers.                   *)
(***************************************************************************)
C7_QuotientBound ==
  Extracted => ParticleCount * SAMPLING * SAMPLING <= videoCanvas[1] * videoCanvas[2]

(***************************************************************************)
(* C7 amended: the particle count is at most ceil(width/stride) times      *)
(* ceil(height/stride), the number of sampled positions, which is          *)
(* (width/stride)*(height/stride) when both dimensions are multiples of    *)
(* the stride.                                                             *)
(***************************************************************************)
CeilDiv(a, b) == (a + b - 1) \div b

C7_CeilingBound ==
  Extracted =>
    /\ ParticleCount <= CeilDiv(videoCanvas[1], SAMPLING) * CeilDiv(videoCanvas[2], SAMPLING)
    /\ (videoCanvas[1] % SAMPLING = 0 /\ videoCanvas[2] % SAMPLING = 0) =>
         ParticleCount * SAMPLING * SAMPLING <= videoCanvas[1] * videoCanvas[2]

C7_Witness ==
  /\ Extracted
  /\ videoCanvas[1] % SAMPLING # 0
  /\ ParticleCount = CeilDiv(videoCanvas[1], SAMPLING) * CeilDiv(videoCanvas[2], SAMPLING)
  /\ ParticleCount * SAMPLING * SAMPLING > videoCanvas[1] * videoCanvas[2]

(***************************************************************************)
(* C8: every pixel the extractor reads is inside the frame: 0 <= x < width,*)
(* 0 <= y < height, and the bytes (y*width+x)*4 .. +3 lie below            *)
(* width*height*4, also when the dimensions are not multiples of the       *)
(* stride.                                                                 *)
(***************************************************************************)
C8_ReadsInRange ==
  \A k \in 1..Len(reads) :
    LET x == reads[k][1]
        y == reads[k][2]
        i == reads[k][3]
    IN  /\ 0 <= x /\ x < videoCanvas[1]
        /\ 0 <= y /\ y < videoCanvas[2]
        /\ i = (y * videoCanvas[1] + x) * 4
        /\ \A b \in 0..3 : i + b >= 0 /\ i + b < videoCanvas[1] * videoCanvas[2] * 4

C8_Witness ==
  /\ Extracted
  /\ SAMPLING > 1
  /\ videoCanvas[1] % SAMPLING # 0
  /\ videoCanvas[2] % SAMPLING # 0
  /\ Len(reads) > 1

(***************************************************************************)
(* C9: a frame that finds the video below HAVE_CURRENT_DATA skips the      *)
(* extraction, leaves positions, colours and vertex buffers as they were,  *)
(* and goes on to Pass 1 and Pass 2, which draw the particles already      *)
(* there.                                                                  *)
(***************************************************************************)
C9_NotReadyKeepsBuffer ==
  /\ [][ (pc = "extract" /\ pc' # "extract" /\ video.readyState < 2) =>
           /\ UNCHANGED <<position, color, particleVbo>>
           /\ frameLog' = frameLog
           /\ pc' = "pass1" ]_vars
  /\ []((FrameDone /\ "extract" \notin LogSteps) =>
           /\ {"pass1", "pass2"} \subseteq LogSteps
           /\ pass1Draw.count = ParticleCount
           /\ pass1Draw.vbo = <<position, color>>)

C9_Witness ==
  /\ FrameDone
  /\ video.readyState < 2
  /\ frameLog = <<"animate", "pass1", "pass2">>
  /\ pass1Draw.count > 0

(***************************************************************************)
(* C10 as stated: when the off-screen target is not framebuffer-complete   *)
(* at creation, setup fails: the running flag is never set and neither     *)
(* pass is ever issued.                                                    *)
(***************************************************************************)
C10_IncompleteIsFatal ==
  (framebuffer # Null /\ framebuffer # "FRAMEBUFFER_COMPLETE") =>
    /\ running = FALSE
    /\ ~pass1Draw.issued
    /\ ~pass2Draw.issued

(***************************************************************************)
(* C11: when the aspect-corrected pointer coincides with the particle's    *)
(* rest position (distance 0), the evaluated offset is exactly (0, 0) and  *)
(* never NaN.                                                              *)
(***************************************************************************)
C11_ZeroDistanceZeroOffset ==
  (shade.done /\ shade.toMouse = ZeroVec) => shade.offset = ZeroVec

(***************************************************************************)
(* C12: stopping is one check of the running flag at the entry of each     *)
(* frame.  A frame that finds the flag cleared schedules no following      *)
(* frame; a frame that has started moves only to its next step, whatever   *)
(* the flag, finds each pass enabled and ends with both passes issued;     *)
(* once the flag is cleared at most one callback is pending, the frame     *)
(* that consumes it leaves none, and with none pending no frame starts.    *)
(***************************************************************************)
FrameStarts == pc = "idle" /\ pc' # "idle"
Stopped == boot = "done" /\ running = FALSE
Consumed == IF boot = "done" THEN 1 ELSE 0

C12_StopState ==
  /\ pc # "idle" => pc \in {RenderOrder[k] : k \in 1..Len(RenderOrder)}
  /\ pc = "pass1" => ENABLED RenderPass1
  /\ pc = "pass2" => ENABLED RenderPass2
  /\ FrameDone => {"pass1", "pass2"} \subseteq LogSteps
  /\ Stopped => rafPending <= 1
  /\ (Stopped /\ pc = "idle" /\ rafPending = 0) => ~ENABLED RenderSchedule

C12_StopStep ==
  /\ (FrameStarts /\ running = FALSE) => rafPending' = rafPending - Consumed
  /\ (FrameStarts /\ running = TRUE) => rafPending' = rafPending - Consumed + 1
  /\ ~FrameStarts => rafPending' = rafPending
  /\ (FrameStarts /\ Stopped) => rafPending' = 0
  /\ pc # "idle" => (running' = running /\ pc' = StepAfter(pc))

C12_StopIsOneCheck == [](C12_StopState) /\ [][C12_StopStep]_vars

C12_Witness ==
  /\ Stopped
  /\ FrameDone
  /\ rafPending = 0
  /\ pass1Draw.issued
  /\ pass2Draw.issued

(***************************************************************************)
(* C20: at most one render callback is pending at every moment.  render()  *)
(* is started once, after setup; every later frame consumes the one        *)
(* pending callback and schedules at most one; no frame starts while       *)
(* another is in progress; while the flag is set a callback is pending     *)
(* between frames, so every display refresh gets exactly one frame.        *)
(***************************************************************************)
C20_PendingState ==
  /\ rafPending \in {0, 1}
  /\ boot # "done" => rafPending = 0
  /\ (boot = "done" /\ running = TRUE) => rafPending = 1
  /\ pc # "idle" => ~ENABLED RenderSchedule
  /\ boot = "render" => (running = TRUE /\ pc = "idle")

C20_PendingStep ==
  /\ boot = "done" => boot' = "done"
  /\ (FrameStarts /\ boot = "done") => (rafPending = 1 /\ rafPending' <= 1)
  /\ (FrameStarts /\ boot # "done") => (boot = "render" /\ boot' = "done")
  /\ rafPending' > rafPending => (FrameStarts /\ rafPending' = rafPending + 1)

C20_OneCallbackPending == [](C20_PendingState) /\ [][C20_PendingStep]_vars

C20_Witness ==
  /\ boot = "done"
  /\ running = TRUE
  /\ FrameDone
  /\ rafPending = 1
  /\ now >= 2 * TimeStep
  /\ updateClock = now

(***************************************************************************)
(* C13: the pointer state is last-write-wins.  Pass 1 of a frame is given  *)
(* the pair written by the most recent pointer event before that frame,    *)
(* both coordinates from that one event, or (0, 0) when there has been no  *)
(* event; earlier events leave no trace; a pointer event changes nothing   *)
(* but the pointer state.                                                  *)
(***************************************************************************)
LastPointerState ==
  IF pointer.delivered
  THEN <<Rat(2 * pointer.pageX - pointer.innerWidth, pointer.innerWidth),
         Rat(pointer.innerHeight - 2 * pointer.pageY, pointer.innerHeight)>>
  ELSE <<RInt(0), RInt(0)>>

AllButPointer ==
  <<now, boot, pc, rafPending, running, startTime, asciiParams, tileSizeAnimation,
    updateClock, video, videoCanvas, SAMPLING, ALPHA_THRESHOLD, position, color,
    particleVbo, reads, innerSize, twin, shade, frag, canvas, framebuffer,
    renderTexture, pass1Draw, pass2Draw, frameLog>>

C13_PointerStep ==
  /\ pc = "pass1" => (pass1Draw'.issued /\ pass1Draw'.mouse = LastPointerState)
  /\ (pointer' # pointer \/ uMouse' # uMouse) => UNCHANGED AllButPointer
  /\ pc # "idle" => (pointer' = pointer /\ uMouse' = uMouse)

C13_LastWriteWins == [](uMouse = LastPointerState) /\ [][C13_PointerStep]_vars

C13_Witness ==
  /\ pc = "pass2"
  /\ pointer.delivered
  /\ pass1Draw.issued
  /\ pass1Draw.mouse = <<Rat(0 - 1, 2), Rat(1, 3)>>
  /\ \E k \in 1..Len(frameLog) : frameLog[k] = "pass1"

(***************************************************************************)
(* C14: the extracted sequence is a function of the frame, the stride and  *)
(* the threshold alone, in row-major order: the n-th particle comes from   *)
(* the n-th qualifying sampled position counted by ascending x within a    *)
(* row and rows by ascending y, whatever the buffer held before; so two    *)
(* extractions of the same input give the same sequence.                   *)
(***************************************************************************)
Wanted == {p \in SampledPositions : Qualifies(p)}
RowMajorBefore(q, p) == q[2] < p[2] \/ (q[2] = p[2] /\ q[1] < p[1])
RowMajorRank(p) == Cardinality({q \in Wanted : RowMajorBefore(q, p)}) + 1

C14_RowMajorDeterministic ==
  Extracted =>
    /\ ParticleCount = Cardinality(Wanted)
    /\ 4 * Len(position) = 3 * Len(color)
    /\ particleVbo = <<position, color>>
    /\ \A p \in Wanted : EmittedParticle(RowMajorRank(p)) = ParticleOf(p)

C14_Witness ==
  /\ Extracted
  /\ ParticleCount >= 3
  /\ \E p \in Wanted, q \in Wanted : p[2] < q[2] /\ ParticleOf(p) # ParticleOf(q)
  /\ \E p \in Wanted, q \in Wanted : p[2] = q[2] /\ p[1] < q[1]
  /\ \E p \in SampledPositions : ~Qualifies(p)

(***************************************************************************)
(* C15: the particle of pixel (x, y) has nx = (x/width)*2 - 1,             *)
(* ny = -((y/height)*2 - 1) and z = 0: every particle maps back to a       *)
(* sampled pixel of the frame, pixel (0, 0) gives (-1, 1), a larger y      *)
(* gives a smaller ny, and every coordinate lies in [-1, 1].               *)
(***************************************************************************)
ParticleX(k) == position[3 * k - 2]
ParticleY(k) == position[3 * k - 1]
ParticleZ(k) == position[3 * k]
\* the pixel column and row a particle position stands for
SourceX(k) == RDiv(RMul(RAdd(ParticleX(k), RInt(1)), RInt(videoCanvas[1])), RInt(2))
SourceY(k) == RDiv(RMul(RSub(RInt(1), ParticleY(k)), RInt(videoCanvas[2])), RInt(2))

C15_PositionMapping ==
  Extracted =>
    /\ \A k \in 1..ParticleCount :
         /\ SourceX(k)[2] = 1
         /\ SourceY(k)[2] = 1
         /\ <<SourceX(k)[1], SourceY(k)[1]>> \in Wanted
         /\ ParticleZ(k) = RInt(0)
         /\ RLeq(RInt(0 - 1), ParticleX(k)) /\ RLeq(ParticleX(k), RInt(1))
         /\ RLeq(RInt(0 - 1), ParticleY(k)) /\ RLeq(ParticleY(k), RInt(1))
    /\ \A k \in 1..ParticleCount, l \in 1..ParticleCount :
         RLess(SourceY(k), SourceY(l)) => RLess(ParticleY(l), ParticleY(k))
    /\ <<0, 0>> \in Wanted =>
         (ParticleX(1) = RInt(0 - 1) /\ ParticleY(1) = RInt(1))

C15_Witness ==
  /\ Extracted
  /\ <<0, 0>> \in Wanted
  /\ \E k \in 1..ParticleCount : SourceY(k)[1] > 0 /\ SourceX(k)[1] > 0
  /\ \E k \in 1..ParticleCount : RLess(ParticleY(k), RInt(0))

(***************************************************************************)
(* C16: with bio mode on, the red and blue channels of the output are 0    *)
(* for every source colour, tile strength, colour step and glyph mask      *)
(* value, and green is the posterized green; with bio mode off the         *)
(* posterized colour reaches the output unchanged by the bio step.         *)
(***************************************************************************)
Posterize(c, step) ==
  Rat(((c[1] * step[2]) \div (c[2] * step[1])) * step[1], step[2])

C16_BioModeChannels ==
  frag.done =>
    LET wanted == [c \in 1..3 |-> Posterize(frag.texColor[c], frag.uAsciiColorStep)]
        gain == RMul(frag.asciiCharR, frag.uTileStrength)
    IN  IF frag.uBioMode = 1
        THEN /\ frag.gl_FragColor[1] = RInt(0)
             /\ frag.gl_FragColor[3] = RInt(0)
             /\ frag.gl_FragColor[2] = RMul(wanted[2], gain)
        ELSE /\ frag.steppedColor = wanted
             /\ \A c \in 1..3 : frag.gl_FragColor[c] = RMul(wanted[c], gain)

C16_Witness ==
  /\ frag.done
  /\ frag.uBioMode = 1
  /\ RLess(RInt(0), frag.posterized[1])
  /\ RLess(RInt(0), frag.posterized[3])
  /\ RLess(RInt(0), frag.gl_FragColor[2])
  /\ frag.gl_FragColor[1] = RInt(0)

(***************************************************************************)
(* C18: for every source colour in [0, 1], pure white included, the        *)
(* luminance falls in one of exactly 10 buckets 0..9 and the atlas         *)
(* coordinate charIndex + tileUv.x/10 lies in [0, 1), inside the cell of   *)
(* that bucket's glyph.                                                    *)
(***************************************************************************)
C18_TenBuckets ==
  frag.done =>
    LET bucket == RMul(frag.charIndex, RInt(10))
    IN  /\ bucket[2] = 1
        /\ bucket[1] \in 0..9
        /\ RLeq(RInt(0), frag.asciiUv[1]) /\ RLess(frag.asciiUv[1], RInt(1))
        /\ RLeq(Rat(bucket[1], 10), frag.asciiUv[1])
        /\ RLess(frag.asciiUv[1], Rat(bucket[1] + 1, 10))

(***************************************************************************)
(* C17 as stated: in every frame, from the first one on, the parameters    *)
(* handed to the Tile Quantizer are inside the ranges of their sliders:    *)
(* tileSize in [10, 100], tileStrength in [0.5, 2.0], colorStep in         *)
(* [0.05, 0.2].                                                            *)
(***************************************************************************)
InRange(v, lo, hi) == RLeq(lo, v) /\ RLeq(v, hi)

C17_SliderRanges ==
  pass2Draw.issued =>
    /\ InRange(pass2Draw.tileSize, RInt(10), RInt(100))
    /\ InRange(pass2Draw.tileStrength, Rat(1, 2), RInt(2))
    /\ InRange(pass2Draw.colorStep, Rat(1, 20), Rat(1, 5))

(***************************************************************************)
(* C17 amended: in every frame tileSize is in [10, 100] and tileStrength   *)
(* in [0.5, 2.0]; colorStep is the constructor's 0.01, below the slider's  *)
(* minimum, in every frame until the Color Step slider writes it, and in   *)
(* [0.05, 0.2] from then on.                                               *)
(***************************************************************************)
C17_RangesButInitialColorStep ==
  /\ asciiParams.colorStep = InitialParams.colorStep
       \/ InRange(asciiParams.colorStep, Rat(1, 20), Rat(1, 5))
  /\ ~InRange(InitialParams.colorStep, Rat(1, 20), Rat(1, 5))
  /\ pass2Draw.issued =>
       /\ InRange(pass2Draw.tileSize, RInt(10), RInt(100))
       /\ InRange(pass2Draw.tileStrength, Rat(1, 2), RInt(2))
       /\ pass2Draw.colorStep = InitialParams.colorStep
            \/ InRange(pass2Draw.colorStep, Rat(1, 20), Rat(1, 5))

C17_ColorStepOnceWritten ==
  InRange(asciiParams.colorStep, Rat(1, 20), Rat(1, 5))
    => InRange(asciiParams'.colorStep, Rat(1, 20), Rat(1, 5))

C17_ParameterRanges == [](C17_RangesButInitialColorStep) /\ [][C17_ColorStepOnceWritten]_vars

C17_Witness ==
  /\ FrameDone
  /\ pass2Draw.issued
  /\ pass2Draw.colorStep = Rat(1, 5)
  /\ RLess(RInt(10), pass2Draw.tileSize)
  /\ RLess(pass2Draw.tileSize, RInt(50))
  /\ tileSizeAnimation.isAnimating

(***************************************************************************)
(* C19: at every Pass 1, whatever resize events came between load, setup   *)
(* and the frames, the off-screen colour texture has the width and height  *)
(* of the canvas that gives the frame its viewport; a resize event that    *)
(* arrives before the off-screen target exists changes only the canvas     *)
(* size.                                                                   *)
(***************************************************************************)
AllButWindow ==
  <<now, boot, pc, rafPending, running, startTime, uMouse, asciiParams,
    tileSizeAnimation, updateClock, video, videoCanvas, SAMPLING, ALPHA_THRESHOLD,
    position, color, particleVbo, reads, twin, pointer, shade, frag, framebuffer,
    renderTexture, pass1Draw, pass2Draw, frameLog>>

C19_TextureState ==
  /\ framebuffer # Null => renderTexture = canvas
  /\ pc # "idle" => framebuffer # Null
  /\ (pc = "pass2" /\ pass1Draw.issued) =>
       (pass1Draw.resolution = canvas /\ pass1Draw.resolution = renderTexture)

C19_ResizeStep ==
  /\ pc = "pass1" => (pass1Draw'.resolution = canvas /\ renderTexture = canvas)
  /\ (innerSize' # innerSize /\ framebuffer = Null) => UNCHANGED AllButWindow
  /\ (innerSize' # innerSize /\ canvas # NoCanvas) => canvas' = FitCanvas(innerSize')
  /\ pc # "idle" => (innerSize' = innerSize /\ canvas' = canvas)

C19_TextureMatchesCanvas == [](C19_TextureState) /\ [][C19_ResizeStep]_vars

C19_Witness ==
  /\ pc = "pass2"
  /\ pass1Draw.issued
  /\ pass1Draw.resolution = <<20, 11>>
  /\ renderTexture = <<20, 11>>
  /\ pass2Draw.issued
  /\ pass2Draw.texture = <<16, 9>>

(***************************************************************************)
(* C21: the animator writes tileSize only in a frame where it is armed and *)
(* elapsed >= delay.  While Delaying and once Settled its step leaves      *)
(* tileSize as the GUI or an earlier frame left it; while Interpolating    *)
(* its step replaces whatever tileSize holds by the interpolated value,    *)
(* and nothing changes it before Pass 2 of that frame reads it; the step   *)
(* never changes tileStrength, colorStep or bioMode.                       *)
(***************************************************************************)
Writing == tileSizeAnimation.isAnimating /\ Elapsed >= AnimDelay
FrameElapsed == updateClock - tileSizeAnimation.startTime

C21_AnimatorStep ==
  /\ pc = "animate" =>
       /\ asciiParams'.tileStrength = asciiParams.tileStrength
       /\ asciiParams'.colorStep = asciiParams.colorStep
       /\ asciiParams'.bioMode = asciiParams.bioMode
       /\ ~Writing => asciiParams'.tileSize = asciiParams.tileSize
       /\ Writing => asciiParams'.tileSize = ClaimedTileSize(Elapsed)
  /\ pc \in {"extract", "pass1", "pass2"} => asciiParams' = asciiParams
  /\ pc = "pass2" => pass2Draw'.tileSize = asciiParams.tileSize
  /\ asciiParams'.tileSize # asciiParams.tileSize =>
       (pc = "animate" /\ Writing) \/ (HandlerIdle /\ boot = "done")

C21_InterpolatedFrame ==
  (FrameDone /\ tileSizeAnimation.isAnimating /\ FrameElapsed >= AnimDelay) =>
    pass2Draw.tileSize = ClaimedTileSize(FrameElapsed)

C21_AnimatorWritesOnlyWhenDue == [](C21_InterpolatedFrame) /\ [][C21_AnimatorStep]_vars

C21_Witness ==
  /\ pc = "extract"
  /\ Writing
  /\ Elapsed > AnimDelay
  /\ asciiParams.tileSize = ClaimedTileSize(Elapsed)
  /\ asciiParams.colorStep = Rat(1, 5)
  /\ pass2Draw.issued
  /\ pass2Draw.tileSize = RInt(50)

====
